---- MODULE Spec2Model ----
(***************************************************************************)
(* Model of the two protocol loops of the ground-control utility:          *)
(*   - upload_mission  (src/mission_generator.py), the mission handshake;  *)
(*   - mavlink_thread  (src/gcs_server.py), the telemetry relay loop.      *)
(* Every blocking pymavlink call is one step whose result (a message, or   *)
(* None on timeout) is chosen by the vehicle.                              *)
(***************************************************************************)
EXTENDS Integers, Sequences, FiniteSets, TLC

\* ---- bounds ----
MaxItems == 3          \* longest mission list explored
MaxAckCode == 2        \* MAV_MISSION_RESULT codes 0..MaxAckCode are explored
MaxAttempts == 2       \* rounds of the reconnect loop of mavlink_thread explored
MaxRecv == 3           \* results of recv_match in mavlink_thread explored
MaxPos == 2            \* distinct position reports the vehicle sends
MaxRaw == 2            \* raw items of a .plan file explored
MaxLines == 2          \* lines after the first of a .txt file explored
MaxClients == 2        \* client connections handled by handle_connect

\* ---- program constants ----
MAV_MISSION_ACCEPTED == 0

VARIABLES
    items,          \* upload_mission: the `items` argument
    pc,             \* upload_mission: position in the function
    heartbeat,      \* a HEARTBEAT of the vehicle is waiting on the link
    target_system,  \* upload_mission: master.target_system (0 until a heartbeat)
    idx,            \* upload_mission: number of the `for item in items` round
    io,             \* upload_mission: every link operation so far, in order
    result,         \* upload_mission: the outcome lines printed so far
    master,         \* gcs_server: the global handle, 0 for None, else a connection
    opened,         \* gcs_server: number of connections mavlink_connection made
    closed,         \* gcs_server: the connections close() was completed on
    heard,          \* gcs_server: the connections whose target_system is set
    attempts,       \* mavlink_thread: rounds of the outer `while True` begun
    rpc,            \* mavlink_thread: position in the function
    rmsg,           \* mavlink_thread: the local `msg`
    raised,         \* mavlink_thread: an exception is propagating out of the handler
    events,         \* everything socketio.emit delivered, in order
    rx,             \* mavlink_thread: every result of recv_match, in order
    econn,          \* for each element of events, the value of master at the emit
    raises,         \* mavlink_thread: the exceptions caught by `except`, in order
    args,           \* __main__: the parsed command line
    file,           \* __main__: the content of the file named by --load-file
    mission_to_upload,  \* __main__: the variable of that name
    mpc,            \* __main__: position in the script
    hpc,            \* handle_connect: position in the handler
    hevents,        \* everything handle_connect emitted, in order
    clients         \* number of client connections handled or being handled

uvars == <<items, pc, target_system, idx, io, result>>

rvars == <<master, opened, closed, heard, attempts, rpc, rmsg, raised, events, rx,
           econn, raises>>

mvars == <<args, file, mission_to_upload, mpc>>

hvars == <<hpc, hevents, clients>>

vars == <<items, pc, heartbeat, target_system, idx, io, result,
          master, opened, closed, heard, attempts, rpc, rmsg, raised, events, rx,
          econn, raises, args, file, mission_to_upload, mpc, hpc, hevents, clients>>

\* ---- messages ----
None == [type |-> "None"]
Heartbeat == [type |-> "HEARTBEAT"]
MissionAck(code) == [type |-> "MISSION_ACK", ack |-> code]
MissionRequest(s) == [type |-> "MISSION_REQUEST", seq |-> s]

AckCodes == 0..MaxAckCode
ReqSeqs == 0..MaxItems

\* A list as parse_plan_file leaves it: seq = position, current only on the first.
NormalisedList(n) ==
    [i \in 1..n |-> [seq |-> i - 1, current |-> IF i = 1 THEN 1 ELSE 0]]

MissionLists == { NormalisedList(n) : n \in 0..MaxItems }

\* ---- link operations recorded in io ----
Op(kind, site, m) == [op |-> kind, at |-> site, msg |-> m]

\* ---- the decisions of upload_mission ----
NoItems_neg(its) == Len(its) < 0
NoItems(its) == Len(its) = 0

AckMissing_never(ack) == FALSE
AckMissing(ack) == ack = None

RequestMissing(msg) == msg = None

OutOfBounds_offbyone(seq, its) == seq >= Len(its) - 1
OutOfBounds(seq, its) == seq >= Len(its)

ItemToSend_first(its, seq) == its[1]
ItemToSend(its, seq) == its[seq + 1]

FinalOutcome_anyack(final_ack) ==
    IF final_ack # None
    THEN [kind |-> "Successful", code |-> MAV_MISSION_ACCEPTED]
    ELSE [kind |-> "NoFinalAck", code |-> -1]
FinalOutcome(final_ack) ==
    IF final_ack # None /\ final_ack.ack = MAV_MISSION_ACCEPTED
    THEN [kind |-> "Successful", code |-> final_ack.ack]
    ELSE IF final_ack # None
         THEN [kind |-> "FailedWithCode", code |-> final_ack.ack]
         ELSE [kind |-> "NoFinalAck", code |-> -1]

Report(k) == [kind |-> k, code |-> -1]

\* ---- upload_mission ----
UInit ==
    /\ items \in MissionLists
    /\ pc = "start"
    /\ heartbeat = FALSE
    /\ target_system = 0
    /\ idx = 0
    /\ io = <<>>
    /\ result = <<>>
    /\ master = 0
    /\ opened = 0
    /\ closed = {}
    /\ heard = {}
    /\ attempts = 0
    /\ rpc = "connect"
    /\ rmsg = None
    /\ raised = FALSE
    /\ events = <<>>
    /\ rx = <<>>
    /\ econn = <<>>
    /\ raises = <<>>
    /\ args = [load_file |-> "", upload |-> FALSE]
    /\ file = [kind |-> "none", exists |-> FALSE, json_ok |-> FALSE,
               raw |-> <<>>, lines |-> <<>>]
    /\ mission_to_upload = [none |-> TRUE, items |-> <<>>]
    /\ mpc = "idle"
    /\ hpc = "idle"
    /\ hevents = <<>>
    /\ clients = 0

\* The vehicle puts a heartbeat on the link (at any time, or never).
VehicleHeartbeat ==
    /\ heartbeat = FALSE
    /\ heartbeat' = TRUE
    /\ UNCHANGED <<uvars, rvars, mvars, hvars>>

\* if not items: print("No mission items to upload."); return
CheckItems ==
    /\ pc = "start"
    /\ IF NoItems(items)
       THEN /\ result' = Append(result, Report("NoItems"))
            /\ pc' = "done"
       ELSE /\ result' = result
            /\ pc' = "connect"
    /\ UNCHANGED <<items, heartbeat, target_system, idx, io>>
    /\ UNCHANGED <<rvars, mvars, hvars>>

\* master = mavutil.mavlink_connection(connection_string)
Connect ==
    /\ pc = "connect"
    /\ io' = Append(io, Op("open", "connect", None))
    /\ pc' = "wait_heartbeat"
    /\ UNCHANGED <<items, heartbeat, target_system, idx, result>>
    /\ UNCHANGED <<rvars, mvars, hvars>>

\* master.wait_heartbeat(): no timeout argument, returns only on a heartbeat
WaitHeartbeat ==
    /\ pc = "wait_heartbeat"
    /\ heartbeat = TRUE
    /\ heartbeat' = FALSE
    /\ target_system' = 1
    /\ io' = Append(io, Op("recv", "wait_heartbeat", Heartbeat))
    /\ pc' = "clear"
    /\ UNCHANGED <<items, idx, result>>
    /\ UNCHANGED <<rvars, mvars, hvars>>

\* master.mav.mission_clear_all_send(target_system, target_component)
SendClear ==
    /\ pc = "clear"
    /\ io' = Append(io, Op("send", "clear", [type |-> "MISSION_CLEAR_ALL"]))
    /\ pc' = "clear_ack"
    /\ UNCHANGED <<items, heartbeat, target_system, idx, result>>
    /\ UNCHANGED <<rvars, mvars, hvars>>

\* ack = master.recv_match(type='MISSION_ACK', blocking=True, timeout=3)
RecvClearAck ==
    /\ pc = "clear_ack"
    /\ \E ack \in {None} \cup { MissionAck(c) : c \in AckCodes } :
        /\ io' = Append(io, Op("recv", "clear_ack", ack))
        /\ IF AckMissing(ack)
           THEN /\ result' = Append(result, Report("ClearAckTimeout"))
                /\ pc' = "done"
           ELSE /\ result' = result
                /\ pc' = "count"
    /\ UNCHANGED <<items, heartbeat, target_system, idx>>
    /\ UNCHANGED <<rvars, mvars, hvars>>

\* time.sleep(1); master.mav.mission_count_send(..., len(items))
SendCount ==
    /\ pc = "count"
    /\ io' = Append(io, Op("send", "count",
                           [type |-> "MISSION_COUNT", count |-> Len(items)]))
    /\ idx' = 0
    /\ pc' = IF 0 >= Len(items) THEN "final_ack" ELSE "request"
    /\ UNCHANGED <<items, heartbeat, target_system, result>>
    /\ UNCHANGED <<rvars, mvars, hvars>>

AfterRound_extra(n) == IF n >= Len(items) + 1 THEN "final_ack" ELSE "request"

\* The for loop is over once every element of items has had its round.
AfterRound(n) == IF n >= Len(items) THEN "final_ack" ELSE "request"

RequestTimeout_continues ==
    /\ pc = "request"
    /\ \E msg \in {None} :
        /\ RequestMissing(msg)
        /\ io' = Append(io, Op("recv", "request", msg))
    /\ idx' = idx + 1
    /\ pc' = AfterRound(idx + 1)
    /\ UNCHANGED <<items, heartbeat, target_system, result>>
    /\ UNCHANGED <<rvars, mvars, hvars>>

\* One round of `for item in items`: no request within the timeout.
RequestTimeout ==
    /\ pc = "request"
    /\ \E msg \in {None} :
        /\ RequestMissing(msg)
        /\ io' = Append(io, Op("recv", "request", msg))
    /\ result' = Append(result, Report("RequestTimeout"))
    /\ pc' = "done"
    /\ UNCHANGED <<items, heartbeat, target_system, idx>>
    /\ UNCHANGED <<rvars, mvars, hvars>>

\* One round: the requested seq is out of bounds, `continue`.
RequestOutOfBounds ==
    /\ pc = "request"
    /\ \E msg \in { MissionRequest(s) : s \in ReqSeqs } :
        /\ ~RequestMissing(msg)
        /\ OutOfBounds(msg.seq, items)
        /\ io' = Append(io, Op("recv", "request", msg))
    /\ idx' = idx + 1
    /\ pc' = AfterRound(idx + 1)
    /\ UNCHANGED <<items, heartbeat, target_system, result>>
    /\ UNCHANGED <<rvars, mvars, hvars>>

RequestServed_loopitem ==
    /\ pc = "request"
    /\ \E msg \in { MissionRequest(s) : s \in ReqSeqs } :
        /\ ~RequestMissing(msg)
        /\ ~OutOfBounds(msg.seq, items)
        /\ io' = io \o << Op("recv", "request", msg),
                          Op("send", "item",
                             [type |-> "MISSION_ITEM_INT",
                              item |-> items[idx + 1]]) >>
    /\ idx' = idx + 1
    /\ pc' = AfterRound(idx + 1)
    /\ UNCHANGED <<items, heartbeat, target_system, result>>
    /\ UNCHANGED <<rvars, mvars, hvars>>

\* One round: items[seq] is sent with mission_item_int_send.
RequestServed ==
    /\ pc = "request"
    /\ \E msg \in { MissionRequest(s) : s \in ReqSeqs } :
        /\ ~RequestMissing(msg)
        /\ ~OutOfBounds(msg.seq, items)
        /\ io' = io \o << Op("recv", "request", msg),
                          Op("send", "item",
                             [type |-> "MISSION_ITEM_INT",
                              item |-> ItemToSend(items, msg.seq)]) >>
    /\ idx' = idx + 1
    /\ pc' = AfterRound(idx + 1)
    /\ UNCHANGED <<items, heartbeat, target_system, result>>
    /\ UNCHANGED <<rvars, mvars, hvars>>

\* final_ack = master.recv_match(type='MISSION_ACK', blocking=True, timeout=3)
RecvFinalAck ==
    /\ pc = "final_ack"
    /\ \E final_ack \in {None} \cup { MissionAck(c) : c \in AckCodes } :
        /\ io' = Append(io, Op("recv", "final_ack", final_ack))
        /\ result' = Append(result, FinalOutcome(final_ack))
    /\ pc' = "done"
    /\ UNCHANGED <<items, heartbeat, target_system, idx>>
    /\ UNCHANGED <<rvars, mvars, hvars>>

UNext ==
    \/ VehicleHeartbeat
    \/ CheckItems
    \/ Connect
    \/ WaitHeartbeat
    \/ SendClear
    \/ RecvClearAck
    \/ SendCount
    \/ RequestTimeout
    \/ RequestOutOfBounds
    \/ RequestServed
    \/ RecvFinalAck

\* The steps of upload_mission itself; the vehicle owes nothing.
UploadStep ==
    \/ CheckItems
    \/ Connect
    \/ WaitHeartbeat
    \/ SendClear
    \/ RecvClearAck
    \/ SendCount
    \/ RequestTimeout
    \/ RequestOutOfBounds
    \/ RequestServed
    \/ RecvFinalAck

UploadSpec == UInit /\ [][UNext]_vars

\* upload_mission runs to its next blocking call and every timed wait expires.
UploadFairSpec == UInit /\ [][UNext]_vars /\ WF_vars(UploadStep)

\* ---- mission_generator.py: the waypoint sources and __main__ ----
\* What a parse function returns: None, or a list of items.
NoneResult == [none |-> TRUE, items |-> <<>>]
Loaded(its) == [none |-> FALSE, items |-> its]

\* `not mission_to_upload`: None or the empty list.
Falsy(m) == m.none \/ Len(m.items) = 0

Item(s, c) == [seq |-> s, current |-> c]

\* generate_mission_items: takeoff, three waypoints, return-to-launch.
generate_mission_items ==
    LET takeoff == << Item(0, 1) >>
        wps == takeoff \o [i \in 1..3 |-> Item(i, 0)]
    IN  wps \o << Item(Len(wps), 0) >>

\* The raw items of a .plan file: simple items, complex items with their
\* sub-items, and items of any other type.
SubItemCounts == {0, 2}
RawItems ==
    {[type |-> "SimpleItem", n |-> 0], [type |-> "Other", n |-> 0]}
        \cup { [type |-> "ComplexItem", n |-> k] : k \in SubItemCounts }

\* The loop over raw_items: seq_counter is the number of items appended so far.
RECURSIVE PlanItems(_, _)
PlanItems(raw, acc) ==
    IF raw = <<>> THEN acc
    ELSE LET item == Head(raw)
             seq_counter == Len(acc)
             added ==
                 IF item.type = "ComplexItem"
                 THEN [k \in 1..item.n |->
                          Item(seq_counter + k - 1,
                               IF seq_counter + k - 1 = 0 THEN 1 ELSE 0)]
                 ELSE IF item.type = "SimpleItem"
                      THEN << Item(seq_counter, IF seq_counter = 0 THEN 1 ELSE 0) >>
                      ELSE <<>>
         IN  PlanItems(Tail(raw), acc \o added)

\* "Correct the 'current' flag ... Re-sequence everything to be safe"
Resequence(its) ==
    [i \in 1..Len(its) |-> [its[i] EXCEPT !.current = IF i = 1 THEN 1 ELSE 0,
                                          !.seq = i - 1]]

parse_plan_file(f) ==
    IF ~f.exists \/ ~f.json_ok
    THEN NoneResult
    ELSE Loaded(Resequence(PlanItems(f.raw, <<>>)))

\* The lines of a .txt file: the header, blank or comment lines, lines that do
\* not have 12 fields, lines with a field float() rejects, waypoint lines.
Line(kind, s, c) == [t |-> kind, seq |-> s, current |-> c]
HeaderLine == Line("header", 0, 0)
TxtSeqs == {0, 1}
WaypointLines == { Line("wp", s, c) : s \in TxtSeqs, c \in {0, 1} }
BodyLines == {Line("blank", 0, 0), Line("short", 0, 0), Line("bad", 0, 0)}
                 \cup WaypointLines

\* lines[0].startswith('QGC WPL')
HasHeader_any(lines) == TRUE
HasHeader(lines) == lines[1].t = "header"

\* The loop over lines[1:]; float() raising ends the function with None.
RECURSIVE TxtItems(_, _)
TxtItems(body, acc) ==
    IF body = <<>> THEN Loaded(acc)
    ELSE LET line == Head(body)
         IN  IF line.t = "blank" \/ line.t = "short"
             THEN TxtItems(Tail(body), acc)
             ELSE IF line.t = "bad"
                  THEN NoneResult
                  ELSE TxtItems(Tail(body), Append(acc, Item(line.seq, line.current)))

parse_txt_file(f) ==
    IF ~f.exists \/ Len(f.lines) = 0
    THEN NoneResult
    ELSE IF ~HasHeader(f.lines)
         THEN NoneResult
         ELSE TxtItems(Tail(f.lines), <<>>)

FileNames == {"mission.plan", "mission.txt", "mission.wpl"}

Extension(filename) ==
    CASE filename = "mission.plan" -> ".plan"
      [] filename = "mission.txt" -> ".txt"
      [] OTHER -> ""

load_mission_from_file(filename, f) ==
    IF Extension(filename) = ".plan"
    THEN parse_plan_file(f)
    ELSE IF Extension(filename) = ".txt"
         THEN parse_txt_file(f)
         ELSE NoneResult

\* Sequences over S of length at most n.
SeqsUpTo(S, n) == UNION { [1..k -> S] : k \in 0..n }

PlanFiles ==
    { [kind |-> "plan", exists |-> TRUE, json_ok |-> j, raw |-> r, lines |-> <<>>] :
        j \in BOOLEAN, r \in SeqsUpTo(RawItems, MaxRaw) }

TxtFiles ==
    { [kind |-> "txt", exists |-> e, json_ok |-> FALSE, raw |-> <<>>, lines |-> l] :
        e \in BOOLEAN,
        l \in {<<>>} \cup { <<first>> \o b : first \in {HeaderLine, Line("wp", 0, 1)},
                                            b \in SeqsUpTo(BodyLines, MaxLines) } }

NoFile == [kind |-> "none", exists |-> FALSE, json_ok |-> FALSE, raw |-> <<>>, lines |-> <<>>]

FilesFor(filename) ==
    IF Extension(filename) = ".plan" THEN PlanFiles
    ELSE IF Extension(filename) = ".txt" THEN TxtFiles
    ELSE {NoFile}

MInit ==
    /\ args \in [load_file : {""} \cup FileNames, upload : BOOLEAN]
    /\ file \in FilesFor(args.load_file)
    /\ file.exists \/ file.lines = <<>>
    /\ mission_to_upload = NoneResult
    /\ mpc = "start"
    /\ items = <<>>
    /\ pc = "not_called"
    /\ heartbeat = FALSE
    /\ target_system = 0
    /\ idx = 0
    /\ io = <<>>
    /\ result = <<>>
    /\ master = 0
    /\ opened = 0
    /\ closed = {}
    /\ heard = {}
    /\ attempts = 0
    /\ rpc = "connect"
    /\ rmsg = None
    /\ raised = FALSE
    /\ events = <<>>
    /\ rx = <<>>
    /\ econn = <<>>
    /\ raises = <<>>
    /\ hpc = "idle"
    /\ hevents = <<>>
    /\ clients = 0

\* if args.load_file: mission_to_upload = load_mission_from_file(...);
\* if not mission_to_upload: exit()
MainLoadFile ==
    /\ mpc = "start"
    /\ args.load_file # ""
    /\ LET m == load_mission_from_file(args.load_file, file)
       IN  /\ mission_to_upload' = m
           /\ mpc' = IF Falsy(m) THEN "exited" ELSE "decide"
    /\ UNCHANGED <<args, file, heartbeat, uvars, rvars, hvars>>

\* else: generated_mission = generate_mission_items(); if args.upload: ...
MainGenerate ==
    /\ mpc = "start"
    /\ args.load_file = ""
    /\ mission_to_upload' =
          IF args.upload THEN Loaded(generate_mission_items) ELSE NoneResult
    /\ mpc' = "decide"
    /\ UNCHANGED <<args, file, heartbeat, uvars, rvars, hvars>>

\* if mission_to_upload and (args.upload or args.load_file):
\*     upload_mission(args.connect, mission_to_upload)
MainCallUpload ==
    /\ mpc = "decide"
    /\ ~Falsy(mission_to_upload) /\ (args.upload \/ args.load_file # "")
    /\ items' = mission_to_upload.items
    /\ pc' = "start"
    /\ mpc' = "upload"
    /\ UNCHANGED <<args, file, mission_to_upload, heartbeat, target_system, idx,
                   io, result, rvars, hvars>>

\* The condition at line 244 is false: the script ends.
MainSkipUpload ==
    /\ mpc = "decide"
    /\ ~(~Falsy(mission_to_upload) /\ (args.upload \/ args.load_file # ""))
    /\ mpc' = "end"
    /\ UNCHANGED <<args, file, mission_to_upload, heartbeat, uvars, rvars, hvars>>

\* upload_mission has returned.
MainUploadReturns ==
    /\ mpc = "upload"
    /\ pc = "done"
    /\ mpc' = "end"
    /\ UNCHANGED <<args, file, mission_to_upload, heartbeat, uvars, rvars, hvars>>

MNext ==
    \/ MainLoadFile
    \/ MainGenerate
    \/ MainCallUpload
    \/ MainSkipUpload
    \/ MainUploadReturns
    \/ VehicleHeartbeat
    \/ CheckItems
    \/ Connect
    \/ WaitHeartbeat
    \/ SendClear
    \/ RecvClearAck
    \/ SendCount
    \/ RequestTimeout
    \/ RequestOutOfBounds
    \/ RequestServed
    \/ RecvFinalAck

MainSpec == MInit /\ [][MNext]_vars

\* ---- gcs_server.py: messages and events ----
GlobalPositionInt(k) ==
    [type |-> "GLOBAL_POSITION_INT", lat |-> k, lon |-> k, relative_alt |-> 1000 * k]
OtherMessage == [type |-> "ATTITUDE"]

Positions == { GlobalPositionInt(k) : k \in 1..MaxPos }

Status(m) == [event |-> "status_update", message |-> m]

Connected == Status("MAVLink Connected")
TimeoutStatus == Status("MAVLink Timeout. Reconnecting...")
ErrorStatus == Status("MAVLink Error")

\* round(x, 2) of a number of millimetres expressed in metres, in centimetres
\* (ties to even).
Round2(mm) ==
    LET q == mm \div 10
        r == mm % 10
    IN  IF r > 5 \/ (r = 5 /\ q % 2 = 1) THEN q + 1 ELSE q

\* gps_data: lat and lon in units of 1e-7 degree, alt in units of 0.01 m.
GpsData(msg) ==
    [lat_e7 |-> msg.lat, lon_e7 |-> msg.lon, alt_cm |-> Round2(msg.relative_alt)]

GpsUpdate(msg) == [event |-> "gps_update", data |-> GpsData(msg)]

\* ---- mavlink_thread ----
RInit ==
    /\ items = <<>>
    /\ pc = "start"
    /\ heartbeat = FALSE
    /\ target_system = 0
    /\ idx = 0
    /\ io = <<>>
    /\ result = <<>>
    /\ master = 0
    /\ opened = 0
    /\ closed = {}
    /\ heard = {}
    /\ attempts = 0
    /\ rpc = "connect"
    /\ rmsg = None
    /\ raised = FALSE
    /\ events = <<>>
    /\ rx = <<>>
    /\ econn = <<>>
    /\ raises = <<>>
    /\ args = [load_file |-> "", upload |-> FALSE]
    /\ file = [kind |-> "none", exists |-> FALSE, json_ok |-> FALSE,
               raw |-> <<>>, lines |-> <<>>]
    /\ mission_to_upload = [none |-> TRUE, items |-> <<>>]
    /\ mpc = "idle"
    /\ hpc = "idle"
    /\ hevents = <<>>
    /\ clients = 0

\* master = mavutil.mavlink_connection(MAVLINK_CONNECTION_STRING)
MavlinkConnect ==
    /\ rpc = "connect"
    /\ attempts < MaxAttempts
    /\ attempts' = attempts + 1
    /\ opened' = opened + 1
    /\ master' = opened + 1
    /\ rpc' = "wait_heartbeat"
    /\ UNCHANGED <<econn, raises>>
    /\ UNCHANGED <<closed, heard, rmsg, raised, events, rx, heartbeat, uvars, mvars, hvars>>

\* mavlink_connection raises: master keeps its value, control goes to except
MavlinkConnectRaises ==
    /\ rpc = "connect"
    /\ attempts < MaxAttempts
    /\ attempts' = attempts + 1
    /\ rpc' = "except"
    /\ raises' = Append(raises, [site |-> rpc, conn |-> master])
    /\ UNCHANGED econn
    /\ UNCHANGED <<master, opened, closed, heard, rmsg, raised, events, rx,
                   heartbeat, uvars, mvars, hvars>>

MavlinkWaitHeartbeat_noemit ==
    /\ rpc = "wait_heartbeat"
    /\ heartbeat = TRUE
    /\ heartbeat' = FALSE
    /\ heard' = heard \cup {master}
    /\ rpc' = "recv"
    /\ UNCHANGED <<econn, raises>>
    /\ UNCHANGED <<master, opened, closed, attempts, rmsg, raised, events, rx, uvars, mvars, hvars>>

\* master.wait_heartbeat(): no timeout argument, returns only on a heartbeat
MavlinkWaitHeartbeat ==
    /\ rpc = "wait_heartbeat"
    /\ heartbeat = TRUE
    /\ heartbeat' = FALSE
    /\ heard' = heard \cup {master}
    /\ rpc' = "emit_connected"
    /\ UNCHANGED <<econn, raises>>
    /\ UNCHANGED <<master, opened, closed, attempts, rmsg, raised, events, rx, uvars, mvars, hvars>>

\* socketio.emit('status_update', {'message': 'MAVLink Connected'})
EmitConnected ==
    /\ rpc = "emit_connected"
    /\ events' = Append(events, Connected)
    /\ rpc' = "recv"
    /\ econn' = Append(econn, master)
    /\ UNCHANGED raises
    /\ UNCHANGED <<master, opened, closed, heard, attempts, rmsg, raised, rx,
                   heartbeat, uvars, mvars, hvars>>

\* msg = master.recv_match(blocking=True, timeout=5) returns None
RecvTimeout ==
    /\ rpc = "recv"
    /\ Len(rx) < MaxRecv
    /\ rmsg' = None
    /\ rx' = Append(rx, None)
    /\ rpc' = "emit_timeout"
    /\ UNCHANGED <<econn, raises>>
    /\ UNCHANGED <<master, opened, closed, heard, attempts, raised, events,
                   heartbeat, uvars, mvars, hvars>>

\* recv_match returns a GLOBAL_POSITION_INT
RecvPosition ==
    /\ rpc = "recv"
    /\ Len(rx) < MaxRecv
    /\ \E msg \in Positions :
        /\ rmsg' = msg
        /\ rx' = Append(rx, msg)
    /\ rpc' = "emit_gps"
    /\ UNCHANGED <<econn, raises>>
    /\ UNCHANGED <<master, opened, closed, heard, attempts, raised, events,
                   heartbeat, uvars, mvars, hvars>>

RecvOther_drops ==
    /\ rpc = "recv"
    /\ Len(rx) < MaxRecv
    /\ rmsg' = OtherMessage
    /\ rx' = Append(rx, OtherMessage)
    /\ rpc' = "emit_timeout"
    /\ UNCHANGED <<econn, raises>>
    /\ UNCHANGED <<master, opened, closed, heard, attempts, raised, events,
                   heartbeat, uvars, mvars, hvars>>

\* recv_match returns a message of another type: nothing is done with it
RecvOther ==
    /\ rpc = "recv"
    /\ Len(rx) < MaxRecv
    /\ rmsg' = OtherMessage
    /\ rx' = Append(rx, OtherMessage)
    /\ rpc' = "recv"
    /\ UNCHANGED <<econn, raises>>
    /\ UNCHANGED <<master, opened, closed, heard, attempts, raised, events,
                   heartbeat, uvars, mvars, hvars>>

EmitTimeout_stays ==
    /\ rpc = "emit_timeout"
    /\ events' = Append(events, TimeoutStatus)
    /\ rpc' = "recv"
    /\ econn' = Append(econn, master)
    /\ UNCHANGED raises
    /\ UNCHANGED <<master, opened, closed, heard, attempts, rmsg, raised, rx,
                   heartbeat, uvars, mvars, hvars>>

\* socketio.emit(... 'MAVLink Timeout. Reconnecting...'); break
EmitTimeout ==
    /\ rpc = "emit_timeout"
    /\ events' = Append(events, TimeoutStatus)
    /\ rpc' = "finally"
    /\ econn' = Append(econn, master)
    /\ UNCHANGED raises
    /\ UNCHANGED <<master, opened, closed, heard, attempts, rmsg, raised, rx,
                   heartbeat, uvars, mvars, hvars>>

\* socketio.emit('gps_update', gps_data)
EmitGps ==
    /\ rpc = "emit_gps"
    /\ events' = Append(events, GpsUpdate(rmsg))
    /\ rpc' = "recv"
    /\ econn' = Append(econn, master)
    /\ UNCHANGED raises
    /\ UNCHANGED <<master, opened, closed, heard, attempts, rmsg, raised, rx,
                   heartbeat, uvars, mvars, hvars>>

\* The calls inside the try block after the connection is made.
TrySites == {"wait_heartbeat", "emit_connected", "recv", "emit_timeout", "emit_gps"}

\* wait_heartbeat, recv_match or socketio.emit raises inside the try block
RaiseInTry ==
    /\ rpc \in TrySites
    /\ rpc' = "except"
    /\ raises' = Append(raises, [site |-> rpc, conn |-> master])
    /\ UNCHANGED econn
    /\ UNCHANGED <<master, opened, closed, heard, attempts, rmsg, raised, events, rx,
                   heartbeat, uvars, mvars, hvars>>

\* except Exception as e: socketio.emit(... f'MAVLink Error: {e}')
ExceptEmit ==
    /\ rpc = "except"
    /\ events' = Append(events, ErrorStatus)
    /\ rpc' = "finally"
    /\ econn' = Append(econn, master)
    /\ UNCHANGED raises
    /\ UNCHANGED <<master, opened, closed, heard, attempts, rmsg, raised, rx,
                   heartbeat, uvars, mvars, hvars>>

\* socketio.emit raises inside the handler: finally runs, then the exception
\* leaves the function
ExceptEmitRaises ==
    /\ rpc = "except"
    /\ raised' = TRUE
    /\ rpc' = "finally"
    /\ UNCHANGED <<econn, raises>>
    /\ UNCHANGED <<master, opened, closed, heard, attempts, rmsg, events, rx,
                   heartbeat, uvars, mvars, hvars>>

FinallyClose_skip ==
    /\ rpc = "finally"
    /\ closed' = closed
    /\ rpc' = "reset"
    /\ UNCHANGED <<econn, raises>>
    /\ UNCHANGED <<master, opened, heard, attempts, rmsg, raised, events, rx,
                   heartbeat, uvars, mvars, hvars>>

\* finally: if master: master.close()
FinallyClose ==
    /\ rpc = "finally"
    /\ closed' = IF master # 0 THEN closed \cup {master} ELSE closed
    /\ rpc' = "reset"
    /\ UNCHANGED <<econn, raises>>
    /\ UNCHANGED <<master, opened, heard, attempts, rmsg, raised, events, rx,
                   heartbeat, uvars, mvars, hvars>>

\* master.close() raises inside finally: nothing catches it
FinallyCloseRaises ==
    /\ rpc = "finally"
    /\ master # 0
    /\ rpc' = "terminated"
    /\ UNCHANGED <<econn, raises>>
    /\ UNCHANGED <<master, opened, closed, heard, attempts, rmsg, raised, events, rx,
                   heartbeat, uvars, mvars, hvars>>

\* master = None; time.sleep(5); then the next round of `while True`, unless
\* an exception of the handler is still propagating
FinallyReset ==
    /\ rpc = "reset"
    /\ master' = 0
    /\ rpc' = IF raised THEN "terminated" ELSE "connect"
    /\ UNCHANGED <<econn, raises>>
    /\ UNCHANGED <<opened, closed, heard, attempts, rmsg, raised, events, rx,
                   heartbeat, uvars, mvars, hvars>>

RNext ==
    \/ VehicleHeartbeat
    \/ MavlinkConnect
    \/ MavlinkConnectRaises
    \/ MavlinkWaitHeartbeat
    \/ EmitConnected
    \/ RecvTimeout
    \/ RecvPosition
    \/ RecvOther
    \/ EmitTimeout
    \/ EmitGps
    \/ RaiseInTry
    \/ ExceptEmit
    \/ ExceptEmitRaises
    \/ FinallyClose
    \/ FinallyCloseRaises
    \/ FinallyReset

RelaySpec == RInit /\ [][RNext]_vars

\* The steps mavlink_thread takes by itself: each call returns (recv_match at
\* the latest on its timeout); exceptions and heartbeats are the environment's.
RelayStep ==
    \/ MavlinkConnect
    \/ MavlinkWaitHeartbeat
    \/ EmitConnected
    \/ RecvTimeout
    \/ RecvPosition
    \/ RecvOther
    \/ EmitTimeout
    \/ EmitGps
    \/ ExceptEmit
    \/ FinallyClose
    \/ FinallyReset

RelayFairSpec == RInit /\ [][RNext]_vars /\ WF_vars(RelayStep)

\* ---- handle_connect, run by the server for each client that connects ----
Attempting == Status("Attempting to connect to MAVLink...")

\* `if master ...`: the global is None, the else branch emits at once.
HandleConnectNoMaster ==
    /\ hpc \in {"idle", "error"}
    /\ clients < MaxClients
    /\ master = 0
    /\ clients' = clients + 1
    /\ hevents' = Append(hevents, Attempting)
    /\ hpc' = "idle"
    /\ UNCHANGED <<heartbeat, uvars, rvars, mvars>>

\* `if master ...`: the global holds a connection, `and` goes on to its
\* second operand.
HandleConnectSeesMaster ==
    /\ hpc \in {"idle", "error"}
    /\ clients < MaxClients
    /\ master # 0
    /\ clients' = clients + 1
    /\ hpc' = "check_target"
    /\ UNCHANGED <<hevents, heartbeat, uvars, rvars, mvars>>

\* `... and master.target_system`: the global is read again; on None the
\* attribute access raises, else the branch taken emits its message.
HandleCheckTarget ==
    /\ hpc = "check_target"
    /\ IF master = 0
       THEN /\ hpc' = "error"
            /\ hevents' = hevents
       ELSE /\ hpc' = "idle"
            /\ hevents' = Append(hevents,
                                 IF master \in heard THEN Connected ELSE Attempting)
    /\ UNCHANGED <<clients, heartbeat, uvars, rvars, mvars>>

SNext ==
    \/ VehicleHeartbeat
    \/ MavlinkConnect
    \/ MavlinkConnectRaises
    \/ MavlinkWaitHeartbeat
    \/ EmitConnected
    \/ RecvTimeout
    \/ RecvPosition
    \/ RecvOther
    \/ EmitTimeout
    \/ EmitGps
    \/ RaiseInTry
    \/ ExceptEmit
    \/ ExceptEmitRaises
    \/ FinallyClose
    \/ FinallyCloseRaises
    \/ FinallyReset
    \/ HandleConnectNoMaster
    \/ HandleConnectSeesMaster
    \/ HandleCheckTarget

\* mavlink_thread and the connect handler, interleaved in any order.
ServerSpec == RInit /\ [][SNext]_vars

\* ---- what the log of link operations says ----
N == Len(items)

IsAt(e, site) == e.at = site

\* Positions of io where the operation of a code site happened.
At(site) == { i \in 1..Len(io) : IsAt(io[i], site) }

\* The mission item requests received so far, in order (timeouts left out).
RequestsReceived ==
    LET r == SelectSeq(io, LAMBDA e : IsAt(e, "request") /\ e.msg # None)
    IN  [i \in 1..Len(r) |-> r[i].msg.seq]

\* The list elements sent so far, in order.
ItemsSent ==
    LET s == SelectSeq(io, LAMBDA e : IsAt(e, "item"))
    IN  [i \in 1..Len(s) |-> s[i].msg.item]

InOrder(n) == [i \in 1..n |-> i - 1]

FinalAckIs(m) == \E i \in At("final_ack") : io[i].msg = m

\* The for loop ran all its rounds: the final-ack wait was reached.
LoopCompleted == pc = "final_ack" \/ At("final_ack") # {}

AllServed == \A s \in 0..(N - 1) : \E i \in 1..Len(ItemsSent) : ItemsSent[i] = items[s + 1]

TimedOutKinds == {"ClearAckTimeout", "RequestTimeout", "NoFinalAck"}

\* C1: for a list of N >= 1 items, a vehicle that sends a heartbeat, acks the
\* clear, requests 0..N-1 in order and acks with the accepted code gets exactly
\* the items 0..N-1 in that order, and the upload is reported successful.
C1_InOrderUploadSucceeds ==
    ( /\ pc = "done"
      /\ N >= 1
      /\ RequestsReceived = InOrder(N)
      /\ FinalAckIs(MissionAck(MAV_MISSION_ACCEPTED)) )
    => /\ ItemsSent = items
       /\ result = << [kind |-> "Successful", code |-> MAV_MISSION_ACCEPTED] >>

C1_Witness ==
    /\ pc = "done"
    /\ N = 3
    /\ RequestsReceived = InOrder(N)
    /\ ItemsSent = items
    /\ result = << [kind |-> "Successful", code |-> MAV_MISSION_ACCEPTED] >>

\* A sequence number was requested twice in a row, and the requests otherwise
\* advance by one from 0, all in range.
ReRequested(r) ==
    /\ Len(r) >= 2
    /\ r[1] = 0
    /\ \A i \in 1..Len(r) : r[i] < N
    /\ \A i \in 1..(Len(r) - 1) : r[i + 1] \in {r[i], r[i] + 1}
    /\ \E i \in 1..(Len(r) - 1) : r[i + 1] = r[i]

\* C2: when the vehicle re-requests an in-range sequence number before
\* advancing, the item is sent again and every remaining sequence up to N-1 is
\* still served before upload_mission stops listening for requests.
C2_ResendStillServesAll ==
    (LoopCompleted /\ ReRequested(RequestsReceived)) => AllServed

\* C3: a request for an out-of-bounds sequence is skipped without counting as
\* a round: upload_mission leaves the request loop for the final ack only once
\* the requests 0..N-1 have all been answered.
C3_OutOfBoundsNotCounted ==
    ( /\ LoopCompleted
      /\ \E i \in 1..Len(RequestsReceived) : RequestsReceived[i] >= N
      /\ \A i, j \in 1..Len(RequestsReceived) :
            (i # j /\ RequestsReceived[i] < N) => RequestsReceived[i] # RequestsReceived[j] )
    => AllServed

ClearAckTimedOut == \E i \in At("clear_ack") : io[i].msg = None

\* C4: when no ack of the clear-all command arrives, the attempt ends as timed
\* out and nothing is sent after the clear: no mission count, no item.
C4_NoClearAckSendsNothing ==
    ClearAckTimedOut =>
        /\ pc = "done"
        /\ result = << Report("ClearAckTimeout") >>
        /\ At("count") = {} /\ At("item") = {} /\ At("request") = {}
        /\ IsAt(io[Len(io)], "clear_ack")
        /\ Cardinality(At("clear")) = 1

C4_Witness ==
    /\ ClearAckTimedOut
    /\ pc = "done"
    /\ N = 2

\* The vehicle acked the clear and the first request wait expired.
NoReplyToCount ==
    /\ \E i \in At("clear_ack") : io[i].msg # None
    /\ \E i \in At("request") :
          /\ io[i].msg = None
          /\ \A j \in At("request") : j >= i

\* C5: when the vehicle acks the clear but never answers the mission count,
\* the attempt ends as timed out at the first request wait, with no item sent
\* and no wait for a final ack.
C5_NoReplyToCountTimesOut ==
    NoReplyToCount =>
        /\ pc = "done"
        /\ result = << Report("RequestTimeout") >>
        /\ result[1].kind \in TimedOutKinds
        /\ At("item") = {}
        /\ At("final_ack") = {}
        /\ Cardinality(At("request")) = 1

C5_Witness ==
    /\ NoReplyToCount
    /\ pc = "done"
    /\ N = 3
    /\ Cardinality(At("count")) = 1

\* C6: every upload attempt terminates whatever the vehicle does, also when no
\* heartbeat ever arrives.
C6_UploadTerminates == <>(pc = "done")

\* C7: an empty list is rejected before the vehicle is contacted: nothing is
\* opened, awaited, sent or received.
C7_EmptyListNoNetwork ==
    N = 0 =>
        /\ io = <<>>
        /\ target_system = 0
        /\ pc \in {"start", "done"}
        /\ pc = "done" => result = << Report("NoItems") >>

C7_Witness ==
    /\ N = 0
    /\ pc = "done"
    /\ heartbeat = TRUE
    /\ result = << Report("NoItems") >>

\* C8: once the request loop has completed, the outcome is decided by the
\* final ack alone: accepted -> successful, another code -> failed with that
\* code, no ack -> timed out; one outcome is reported, once.
C8_FinalAckDecides ==
    /\ Len(result) <= 1
    /\ pc = "final_ack" => result = <<>>
    /\ \A i \in At("final_ack") :
          /\ pc = "done"
          /\ i = Len(io)
          /\ Len(result) = 1
          /\ io[i].msg = None =>
                result[1] = [kind |-> "NoFinalAck", code |-> -1]
          /\ (io[i].msg # None /\ io[i].msg.ack = MAV_MISSION_ACCEPTED) =>
                result[1] = [kind |-> "Successful", code |-> MAV_MISSION_ACCEPTED]
          /\ (io[i].msg # None /\ io[i].msg.ack # MAV_MISSION_ACCEPTED) =>
                result[1] = [kind |-> "FailedWithCode", code |-> io[i].msg.ack]

C8_Witness ==
    /\ pc = "done"
    /\ result = << [kind |-> "FailedWithCode", code |-> 1] >>
    /\ RequestsReceived = <<1, 0>>

\* ---- what the relay's event log says ----
IsGps(e) == e.event = "gps_update"
IsStatus(e) == e.event = "status_update"

\* Number of status events among events[i..j].
StatusBetween(i, j) == Cardinality({ k \in i..j : IsStatus(events[k]) })

\* events[j] is the first sample after events[i].
NextSample(i, j) ==
    /\ i < j
    /\ IsGps(events[j])
    /\ \A k \in (i + 1)..(j - 1) : ~IsGps(events[k])

C10_NoExceptionEscapes == rpc # "terminated"

\* ---- the waypoint sources ----
\* seq values contiguous from 0 in list order, exactly one item flagged
\* current, and it is the first one.
WaypointInvariant(its) ==
    /\ \A i \in 1..Len(its) : its[i].seq = i - 1
    /\ \A i \in 1..Len(its) : (its[i].current # 0) <=> (i = 1)

\* C11: every mission list that reaches the upload handshake satisfies the
\* Waypoint invariants, whichever source produced it; a list violating them
\* causes no network I/O.
C11_UploadedListIsNormalised ==
    (pc # "not_called" /\ io # <<>>) => WaypointInvariant(items)

\* The file named by --load-file cannot be loaded, or holds no item.
RequestedFileUnusable ==
    /\ args.load_file # ""
    /\ \/ args.load_file \notin {"mission.plan", "mission.txt"}
       \/ ~file.exists
       \/ /\ file.kind = "txt"
          /\ \/ file.lines = <<>>
             \/ file.lines[1].t # "header"
             \/ \E i \in 2..Len(file.lines) : file.lines[i].t = "bad"
             \/ \A i \in 2..Len(file.lines) : file.lines[i].t # "wp"
       \/ /\ file.kind = "plan"
          /\ \/ ~file.json_ok
             \/ \A i \in 1..Len(file.raw) :
                   \/ file.raw[i].type = "Other"
                   \/ file.raw[i].type = "ComplexItem" /\ file.raw[i].n = 0

\* C12: when a mission file is requested and loading it fails or yields no
\* item, the script exits without calling upload_mission: no connection is made.
C12_FailedLoadNeverUploads ==
    RequestedFileUnusable =>
        /\ pc = "not_called"
        /\ io = <<>>
        /\ mpc \in {"start", "exited"}

C12_Witness ==
    /\ mpc = "exited"
    /\ args.load_file = "mission.txt"
    /\ args.upload
    /\ Len(file.lines) = 2
    /\ file.lines[1].t = "wp"
    /\ file.lines[2].t = "wp"

\* C13: whenever upload_mission reports success, every index 0..N-1 has been
\* sent at least once, and the final-ack wait is entered only after all N
\* items have been requested and sent.
C13_FinalAckOnlyAfterAllSent ==
    /\ pc = "final_ack" => AllServed
    /\ (result # <<>> /\ result[1].kind = "Successful") => AllServed

\* C14: upload_mission is a single pass: the connection is opened, the clear
\* and the count are sent at most once each, the count only after a clear ack
\* was received, at most N request waits are made and at most N items sent,
\* and a wait that timed out is the last link operation of the attempt.
C14_SinglePassNoRetry ==
    /\ Cardinality(At("connect")) <= 1
    /\ Cardinality(At("clear")) <= 1
    /\ Cardinality(At("clear_ack")) <= 1
    /\ Cardinality(At("count")) <= 1
    /\ \A i \in At("count") :
          /\ i > 1
          /\ IsAt(io[i - 1], "clear_ack")
          /\ io[i - 1].msg # None
    /\ Cardinality(At("request")) <= N
    /\ Cardinality(At("item")) <= N
    /\ Cardinality(At("final_ack")) <= 1
    /\ \A i \in 1..Len(io) :
          (io[i].op = "recv" /\ io[i].msg = None) => (i = Len(io) /\ pc = "done")

C14_Witness ==
    /\ pc = "done"
    /\ N = 3
    /\ Cardinality(At("request")) = 3
    /\ Cardinality(At("item")) = 2
    /\ FinalAckIs(None)

\* C15: every item message is the immediate answer to one received request
\* whose seq is in [0, N) and carries the list element at that index; a
\* request with seq >= N is never followed by a send.
C15_OnlyRequestedItemsSent ==
    /\ \A i \in At("item") :
          /\ i > 1
          /\ IsAt(io[i - 1], "request")
          /\ io[i - 1].msg # None
          /\ io[i - 1].msg.seq \in 0..(N - 1)
          /\ io[i].msg.item = items[io[i - 1].msg.seq + 1]
    /\ \A i \in At("request") :
          (io[i].msg # None /\ io[i].msg.seq >= N)
              => (i = Len(io) \/ ~IsAt(io[i + 1], "item"))
    /\ \A i \in At("request") :
          (io[i].msg # None /\ io[i].msg.seq < N)
              => (i < Len(io) /\ IsAt(io[i + 1], "item"))

C15_Witness ==
    /\ pc = "done"
    /\ N = 3
    /\ RequestsReceived = <<2, 3, 1>>
    /\ Len(ItemsSent) = 2
    /\ ItemsSent[1] = items[3]
    /\ ItemsSent[2] = items[2]

\* ---- what the relay's histories say about sessions ----
\* Number of events equal to e that were emitted while master was c.
Emitted(e, c) ==
    Cardinality({ i \in 1..Len(events) : events[i] = e /\ econn[i] = c })

\* Number of exceptions caught from the call at a site while master was c.
RaisedAt(site, c) ==
    Cardinality({ i \in 1..Len(raises) : raises[i] = [site |-> site, conn |-> c] })

InReceiveLoop == rpc \in {"recv", "emit_timeout", "emit_gps"}

\* C16: 'MAVLink Connected' is emitted once per established session, on the
\* first connect and on every reconnect, after the heartbeat and before any
\* gps_update of the session; no gps_update belongs to a session without it.
C16_ConnectedOncePerSession ==
    /\ Emitted(Connected, 0) = 0
    /\ \A c \in 1..opened :
          /\ Emitted(Connected, c) <= 1
          /\ Emitted(Connected, c) = 1 => c \in heard
          /\ (master = c /\ InReceiveLoop) => Emitted(Connected, c) = 1
          /\ c \in heard =>
                Emitted(Connected, c) + RaisedAt("emit_connected", c)
                    + (IF master = c /\ rpc = "emit_connected" THEN 1 ELSE 0) = 1
    /\ \A j \in 1..Len(events) :
          IsGps(events[j]) =>
              \E i \in 1..(j - 1) : events[i] = Connected /\ econn[i] = econn[j]

C16_Witness ==
    /\ opened = 2
    /\ Emitted(Connected, 1) = 1
    /\ Emitted(Connected, 2) = 1
    /\ \E i, j \in 1..Len(events) :
          /\ IsGps(events[i]) /\ econn[i] = 1
          /\ IsGps(events[j]) /\ econn[j] = 2

\* The position reports received so far, in order.
PositionsReceived == SelectSeq(rx, LAMBDA m : m.type = "GLOBAL_POSITION_INT")

\* The payloads of the gps_update events so far, in order.
SamplesEmitted ==
    LET g == SelectSeq(events, IsGps)
    IN  [i \in 1..Len(g) |-> g[i].data]

\* The sample is the decoding of the report: 1e-7 degree units kept, and
\* millimetres turned into hundredths of a metre.
Decodes(data, msg) ==
    /\ data.lat_e7 = msg.lat
    /\ data.lon_e7 = msg.lon
    /\ data.alt_cm * 10 = msg.relative_alt

\* s picks, in order, decodings of elements of p.
RECURSIVE DecodedSubseq(_, _)
DecodedSubseq(s, p) ==
    IF s = <<>> THEN TRUE
    ELSE IF p = <<>> THEN FALSE
    ELSE IF Decodes(Head(s), Head(p)) /\ DecodedSubseq(Tail(s), Tail(p))
         THEN TRUE
         ELSE DecodedSubseq(s, Tail(p))

EmitGpsRaised == Cardinality({ i \in 1..Len(raises) : raises[i].site = "emit_gps" })

SamplesMatchReports ==
    /\ Len(SamplesEmitted) + EmitGpsRaised + (IF rpc = "emit_gps" THEN 1 ELSE 0)
          = Len(PositionsReceived)
    /\ DecodedSubseq(SamplesEmitted, PositionsReceived)
    /\ EmitGpsRaised = 0 =>
          \A i \in 1..Len(SamplesEmitted) :
              Decodes(SamplesEmitted[i], PositionsReceived[i])

\* A message of another type was received in this step.
OtherReceived ==
    /\ Len(rx') = Len(rx) + 1
    /\ rx'[Len(rx')].type \notin {"GLOBAL_POSITION_INT", "None"}

\* C17: while connected, one gps_update is emitted per GLOBAL_POSITION_INT
\* received, in order of receipt; a message of another type produces no event
\* and leaves the session connected.
C17_OneSamplePerPositionReport ==
    /\ []SamplesMatchReports
    /\ [][OtherReceived =>
            /\ events' = events
            /\ rpc' = "recv"
            /\ master' = master
            /\ closed' = closed]_vars

C17_Witness ==
    /\ rx = << GlobalPositionInt(1), OtherMessage, GlobalPositionInt(2) >>
    /\ Len(SamplesEmitted) = 2
    /\ SamplesEmitted[1].lat_e7 = 1
    /\ SamplesEmitted[2].lat_e7 = 2
    /\ rpc = "recv"

\* C18: when no heartbeat arrives after the transport is opened, the connect
\* step gives up after a bounded timeout: mavlink_thread does not stay in the
\* heartbeat wait forever.
C18_HeartbeatWaitGivesUp == (rpc = "wait_heartbeat") ~> (rpc # "wait_heartbeat")

\* The transports opened and not closed.
OpenTransports == (1..opened) \ closed

SessionState ==
    IF rpc = "wait_heartbeat" THEN "AwaitingHeartbeat"
    ELSE IF rpc \in {"emit_connected", "recv", "emit_gps"} THEN "Connected"
    ELSE "Disconnected"

\* C19: the session goes Disconnected -> AwaitingHeartbeat -> Connected ->
\* Disconnected; the connection is closed and master reset to None before the
\* next one is opened, so at most one transport is open at any time.
C19_OneTransportAtATime ==
    /\ [](/\ Cardinality(OpenTransports) <= 1
          /\ master # 0 => OpenTransports \subseteq {master}
          /\ rpc = "connect" => (master = 0 /\ OpenTransports = {}))
    /\ [][/\ SessionState' = "AwaitingHeartbeat" =>
                SessionState \in {"Disconnected", "AwaitingHeartbeat"}
          /\ SessionState' = "Connected" =>
                SessionState \in {"AwaitingHeartbeat", "Connected"}
          /\ opened' # opened =>
                (master = 0 /\ OpenTransports = {} /\ master' = opened')]_vars

C19_Witness ==
    /\ opened = 2
    /\ closed = {1}
    /\ master = 2
    /\ rpc = "recv"
    /\ Len(rx) = 1
    /\ rx[1] = None

\* handle_connect emitted a message in this step.
HandlerEmits == hevents' # hevents

\* C20: handle_connect emits 'MAVLink Connected' only while the relay's
\* session is Connected, emits 'Attempting to connect to MAVLink...' in every
\* other state, and never uses a closed or cleared handle.
C20_HandlerReportsSessionState ==
    /\ [](hpc # "error")
    /\ [][HandlerEmits =>
            /\ (hevents'[Len(hevents')] = Connected) <=> (SessionState = "Connected")
            /\ (hevents'[Len(hevents')] = Connected) => master \notin closed]_vars

====
